---- MODULE Spec2Model ----
(***************************************************************************)
(* A model of the utility layer of the profiler front end:                 *)
(*   src/mods/utils/flow.ts     type-assertion and object helpers          *)
(*   src/mods/utils/connect.ts  explicitConnect, the wrapper over connect  *)
(*   src/mods/types/utils.ts    ObjectMap, the prototype-less bag type     *)
(*                                                                         *)
(* JavaScript values are records of one shape, objects live in a heap and  *)
(* are named by references, and every exported function is an operator     *)
(* from the heap and its arguments to an outcome: the heap after the call, *)
(* whether the call returned or threw, the value or the error message, and *)
(* the calls it made to functions it does not define.  One action per      *)
(* exported function draws the arguments from bounded sets, builds the     *)
(* caller's objects, and records the outcome.                              *)
(***************************************************************************)
EXTENDS Integers, Sequences, FiniteSets

VARIABLES op, args, heap0, heap, kind, value, msg, calls

vars == <<op, args, heap0, heap, kind, value, msg, calls>>

(***************************************************************************)
(* Bounds of the model.                                                    *)
(***************************************************************************)
\* The most own properties a caller's bag holds.
MaxKeys == 2
\* The most arguments after the first that immutableUpdate is given.
MaxRest == 1
\* The most members a caller's Set holds.
MaxSetSize == 2

(***************************************************************************)
(* JavaScript values.                                                      *)
(***************************************************************************)
Undefined == [t |-> "undefined", n |-> 0, s |-> ""]
Null == [t |-> "null", n |-> 0, s |-> ""]
Bool(b) == [t |-> "boolean", n |-> IF b THEN 1 ELSE 0, s |-> ""]
Num(i) == [t |-> "number", n |-> i, s |-> ""]
Str(x) == [t |-> "string", n |-> 0, s |-> x]
\* A function value, named: functions are opaque to this layer.
Fn(name) == [t |-> "function", n |-> 0, s |-> name]
\* A reference to the object at heap[i].
Ref(i) == [t |-> "object", n |-> i, s |-> ""]
\* %Object.prototype%, the one built-in object the heap does not hold.
ObjectPrototype == [t |-> "object", n |-> 0, s |-> "Object.prototype"]

IsRef(v) == v.t = "object" /\ v.n > 0

Digits == <<"0", "1", "2", "3", "4", "5", "6", "7", "8", "9">>

RECURSIVE NumberToString(_)
NumberToString(i) ==
  IF i < 0 THEN "-" \o NumberToString(0 - i)
  ELSE IF i < Len(Digits) THEN Digits[i + 1]
  ELSE NumberToString(i \div Len(Digits)) \o Digits[(i % Len(Digits)) + 1]

\* ToString, as a template literal and the Error constructor apply it to a
\* primitive value.
ToString(v) ==
  CASE v.t = "undefined" -> "undefined"
    [] v.t = "null" -> "null"
    [] v.t = "boolean" -> (IF v.n = 1 THEN "true" ELSE "false")
    [] v.t = "number" -> NumberToString(v.n)
    [] v.t = "string" -> v.s

\* ToBoolean, as the || operator applies it to its left operand.
ToBoolean(v) ==
  CASE v.t = "undefined" -> FALSE
    [] v.t = "null" -> FALSE
    [] v.t = "boolean" -> v.n = 1
    [] v.t = "number" -> v.n # 0
    [] v.t = "string" -> v.s # ""
    [] OTHER -> TRUE

(***************************************************************************)
(* Objects.  props holds the own enumerable data properties in creation    *)
(* order, proto is [[Prototype]], items is the [[SetData]] of a Set.       *)
(***************************************************************************)
NewObject(proto) == [class |-> "Object", props |-> <<>>, proto |-> proto, items |-> <<>>]

OwnIndex(obj, key) ==
  IF \E i \in 1..Len(obj.props) : obj.props[i].key = key
  THEN CHOOSE i \in 1..Len(obj.props) : obj.props[i].key = key
  ELSE 0

HasOwn(obj, key) == OwnIndex(obj, key) # 0

OwnKeySet(obj) == {obj.props[i].key : i \in 1..Len(obj.props)}

OwnValue(obj, key) == obj.props[OwnIndex(obj, key)].value

\* CreateDataProperty: define or overwrite an own property, never a setter.
CreateDataProperty(obj, key, v) ==
  IF HasOwn(obj, key)
  THEN [obj EXCEPT !.props[OwnIndex(obj, key)].value = v]
  ELSE [obj EXCEPT !.props = Append(@, [key |-> key, value |-> v])]

\* Whether a [[Set]] of "__proto__" on an object with this [[Prototype]]
\* reaches the accessor of %Object.prototype% before any data property.
RECURSIVE ReachesProtoSetter(_, _)
ReachesProtoSetter(h, proto) ==
  IF proto = ObjectPrototype THEN TRUE
  ELSE IF ~IsRef(proto) THEN FALSE
  ELSE IF HasOwn(h[proto.n], "__proto__") THEN FALSE
  ELSE ReachesProtoSetter(h, h[proto.n].proto)

\* obj[key] = v on an ordinary object: OrdinarySet.  An own data property is
\* overwritten; otherwise the prototype chain is searched, where the only
\* accessor is Object.prototype.__proto__, whose setter changes
\* [[Prototype]] when v is an object or null and does nothing otherwise.
SetProperty(h, r, key, v) ==
  LET obj == h[r] IN
  IF HasOwn(obj, key) THEN [h EXCEPT ![r] = CreateDataProperty(obj, key, v)]
  ELSE IF key = "__proto__" /\ ReachesProtoSetter(h, obj.proto)
  THEN IF v.t = "object" \/ v.t = "null"
       THEN [h EXCEPT ![r].proto = v]
       ELSE h
  ELSE [h EXCEPT ![r] = CreateDataProperty(obj, key, v)]

\* obj[key] read: the own property, else the prototype chain's, else
\* undefined.
RECURSIVE GetProperty(_, _, _)
GetProperty(h, v, key) ==
  IF ~IsRef(v) THEN Undefined
  ELSE IF HasOwn(h[v.n], key) THEN OwnValue(h[v.n], key)
  ELSE GetProperty(h, h[v.n].proto, key)

\* Canonical array-index keys sort first, in ascending numeric order.
IsArrayIndex(key) == \E i \in 1..Len(Digits) : Digits[i] = key

ArrayIndex(key) == (CHOOSE i \in 1..Len(Digits) : Digits[i] = key) - 1

RECURSIVE SortedIndexKeys(_)
SortedIndexKeys(ks) ==
  IF ks = {} THEN <<>>
  ELSE LET k == CHOOSE x \in ks : \A y \in ks : ArrayIndex(x) <= ArrayIndex(y)
       IN <<k>> \o SortedIndexKeys(ks \ {k})

\* OrdinaryOwnPropertyKeys: index keys ascending, then the string keys in
\* creation order.
OwnPropertyKeys(obj) ==
  LET created == [i \in 1..Len(obj.props) |-> obj.props[i].key]
  IN SortedIndexKeys({k \in OwnKeySet(obj) : IsArrayIndex(k)})
       \o SelectSeq(created, LAMBDA k : ~IsArrayIndex(k))

\* Object.entries(obj): one [key, value] pair per own enumerable string key.
ObjectEntries(obj) ==
  LET ks == OwnPropertyKeys(obj)
  IN [i \in 1..Len(ks) |-> [key |-> ks[i], value |-> OwnValue(obj, ks[i])]]

(***************************************************************************)
(* Outcomes of a call.                                                     *)
(***************************************************************************)
Return(h, v, cs) == [heap |-> h, kind |-> "return", value |-> v, msg |-> "", calls |-> cs]

\* throw new Error(m)
Throw(h, m, cs) == [heap |-> h, kind |-> "throw", value |-> Undefined, msg |-> m, calls |-> cs]

Call(callee, as) == [callee |-> callee, args |-> as]

\* A new array [e1, ..., en]; its prototype chain ends, like a plain
\* object's, in Object.prototype.
NewArray(es) == [class |-> "Array", props |-> <<>>, proto |-> ObjectPrototype, items |-> es]

(***************************************************************************)
(* src/mods/utils/flow.ts                                                  *)
(***************************************************************************)
\* A variant whose default text leaves the value out.
assertExhaustiveCheckNoValue(h, notValid, errorMessage) ==
  LET m == IF errorMessage = Undefined
           THEN Str("There was an unhandled case for the value")
           ELSE errorMessage
  IN Throw(h, ToString(m), <<>>)

\* errorMessage defaults, when undefined, to the text embedding notValid.
assertExhaustiveCheck(h, notValid, errorMessage) ==
  LET m == IF errorMessage = Undefined
           THEN Str("There was an unhandled case for the value: \"" \o ToString(notValid) \o "\"")
           ELSE errorMessage
  IN Throw(h, ToString(m), <<>>)

\* Object.assign's copy of one source onto the target: each own enumerable
\* key of the source, in own-key order, is [[Set]] on the target.
RECURSIVE AssignFrom(_, _, _, _)
AssignFrom(h, target, entries, i) ==
  IF i > Len(entries) THEN h
  ELSE AssignFrom(SetProperty(h, target, entries[i].key, entries[i].value),
                  target, entries, i + 1)

\* Object.assign(target, ...sources): undefined and null sources are skipped.
RECURSIVE ObjectAssign(_, _, _, _)
ObjectAssign(h, target, sources, i) ==
  IF i > Len(sources) THEN h
  ELSE IF ~IsRef(sources[i]) THEN ObjectAssign(h, target, sources, i + 1)
  ELSE ObjectAssign(AssignFrom(h, target, ObjectEntries(h[sources[i].n]), 1),
                    target, sources, i + 1)

\* A variant that copies onto the first argument instead of onto a new {}.
immutableUpdateInPlace(h, object, rest) ==
  Return(ObjectAssign(h, object.n, rest, 1), object, <<>>)

immutableUpdate(h, object, rest) ==
  LET target == Len(h) + 1
  IN Return(ObjectAssign(Append(h, NewObject(ObjectPrototype)), target, <<object>> \o rest, 1),
            Ref(target), <<>>)

\* The case labels of the switch, in source order.
TransformTypeCases ==
  << "merge-call-node", "merge-function", "focus-subtree", "focus-function",
     "focus-category", "collapse-resource", "collapse-direct-recursion",
     "collapse-indirect-recursion", "collapse-function-subtree", "drop-function" >>

\* A variant whose switch lacks the last case label.
convertToTransformTypeMissingCase(h, type) ==
  IF \E i \in 1..(Len(TransformTypeCases) - 1) : type = Str(TransformTypeCases[i])
  THEN Return(h, type, <<>>)
  ELSE Return(h, Null, <<>>)

\* A variant whose default arm calls assertExhaustiveCheck(coercedType).
convertToTransformTypeAsserting(h, type) ==
  IF \E i \in 1..Len(TransformTypeCases) : type = Str(TransformTypeCases[i])
  THEN Return(h, type, <<>>)
  ELSE LET r == assertExhaustiveCheck(h, type, Undefined)
       IN [r EXCEPT !.calls = <<Call("assertExhaustiveCheck", <<type>>)>> \o @]

\* switch compares with ===; the default arm is a cast and return null.
convertToTransformType(h, type) ==
  IF \E i \in 1..Len(TransformTypeCases) : type = Str(TransformTypeCases[i])
  THEN Return(h, type, <<>>)
  ELSE Return(h, Null, <<>>)

\* A variant that leaves the last pair out.
objectEntriesDropLast(h, object) ==
  LET es == ObjectEntries(h[object.n])
      m == IF Len(es) = 0 THEN 0 ELSE Len(es) - 1
      base == Len(h)
      pairs == [i \in 1..m |-> NewArray(<<Str(es[i].key), es[i].value>>)]
      outer == NewArray([i \in 1..m |-> Ref(base + i)])
  IN Return(h \o pairs \o <<outer>>, Ref(base + m + 1), <<>>)

\* Object.entries(object): a new array of new [key, value] arrays.
objectEntries(h, object) ==
  LET es == ObjectEntries(h[object.n])
      base == Len(h)
      pairs == [i \in 1..Len(es) |-> NewArray(<<Str(es[i].key), es[i].value>>)]
      outer == NewArray([i \in 1..Len(es) |-> Ref(base + i)])
  IN Return(h \o pairs \o <<outer>>, Ref(base + Len(es) + 1), <<>>)

\* The callbacks a caller passes to objectMap, applied to (value, key).
ApplyFn(fn, v, key) ==
  CASE fn = Fn("double") -> (IF v.t = "number" THEN Num(v.n * 2) ELSE Num(0))
    [] fn = Fn("key") -> key
    [] fn = Fn("null") -> Null
    [] fn = Fn("identity") -> v

\* The loop of objectMap over the array of pairs at heap[entries].
RECURSIVE MapLoop(_, _, _, _, _)
MapLoop(h, result, entries, i, fn) ==
  IF i > Len(h[entries].items) THEN h
  ELSE LET pair == h[h[entries].items[i].n].items
           key == pair[1]
           v == pair[2]
       IN MapLoop(SetProperty(h, result, key.s, ApplyFn(fn, v, key)),
                  result, entries, i + 1, fn)

objectMap(h, object, fn) ==
  LET result == Len(h) + 1
      es == objectEntries(Append(h, NewObject(ObjectPrototype)), object)
  IN Return(MapLoop(es.heap, result, es.value.n, 1, fn), Ref(result), <<>>)

\* A variant that rejects every falsy item.
ensureExistsFalsy(h, item, message) ==
  IF ~ToBoolean(item)
  THEN Throw(h, ToString(IF ToBoolean(message) THEN message
                         ELSE Str("Expected an item to exist, and it was null.")), <<>>)
  ELSE Return(h, item, <<>>)

\* A variant that ignores the message.
ensureExistsNoMessage(h, item, message) ==
  IF item = Null
  THEN Throw(h, "Expected an item to exist, and it was null.", <<>>)
  ELSE IF item = Undefined
  THEN Throw(h, "Expected an item to exist, and it was undefined.", <<>>)
  ELSE Return(h, item, <<>>)

\* message || default: a falsy message (undefined, null, "") yields the
\* default text.
ensureExists(h, item, message) ==
  IF item = Null
  THEN Throw(h, ToString(IF ToBoolean(message) THEN message
                         ELSE Str("Expected an item to exist, and it was null.")), <<>>)
  ELSE IF item = Undefined
  THEN Throw(h, ToString(IF ToBoolean(message) THEN message
                         ELSE Str("Expected an item to exist, and it was undefined.")), <<>>)
  ELSE Return(h, item, <<>>)

\* A variant that takes the first item out of the Set.
getFirstItemFromSetShift(h, set) ==
  LET items == h[set.n].items
  IN IF Len(items) = 0 THEN Return(h, Undefined, <<>>)
     ELSE Return([h EXCEPT ![set.n].items = Tail(items)], items[1], <<>>)

\* set.values().next().value: the first item in insertion order, or
\* undefined when the iterator is done at once.
getFirstItemFromSet(h, set) ==
  LET items == h[set.n].items
  IN IF Len(items) = 0 THEN Return(h, Undefined, <<>>)
     ELSE Return(h, items[1], <<>>)

(***************************************************************************)
(* src/mods/utils/connect.ts                                               *)
(***************************************************************************)
\* react-redux's connect, which this repository imports and does not
\* define: connect(a, b, c, d) returns a wrapper function that closes over
\* its four arguments.
ConnectWrapper(as) == [class |-> "Function", props |-> <<>>, proto |-> ObjectPrototype, items |-> as]

\* The wrapper applied to a component: a new component that records the
\* wrapped one as WrappedComponent and keeps the wrapper's four arguments.
ConnectedComponent(wrapper, component) ==
  [class |-> "Function",
   props |-> <<[key |-> "WrappedComponent", value |-> component]>>,
   proto |-> ObjectPrototype,
   items |-> wrapper.items]

\* A variant that passes options before mergeProps.
explicitConnectSwapped(h, connectOptions) ==
  LET mapStateToProps == GetProperty(h, connectOptions, "mapStateToProps")
      mapDispatchToProps == GetProperty(h, connectOptions, "mapDispatchToProps")
      mergeProps == GetProperty(h, connectOptions, "mergeProps")
      options == GetProperty(h, connectOptions, "options")
      component == GetProperty(h, connectOptions, "component")
      as == <<mapStateToProps, mapDispatchToProps, options, mergeProps>>
      wrapper == Len(h) + 1
      h1 == Append(h, ConnectWrapper(as))
      h2 == Append(h1, ConnectedComponent(h1[wrapper], component))
  IN Return(h2, Ref(wrapper + 1),
            <<Call("connect", as), Call("connect()", <<component>>)>>)

\* The destructuring reads the five fields; connect is called with four of
\* them and its result with the fifth.
explicitConnect(h, connectOptions) ==
  LET mapStateToProps == GetProperty(h, connectOptions, "mapStateToProps")
      mapDispatchToProps == GetProperty(h, connectOptions, "mapDispatchToProps")
      mergeProps == GetProperty(h, connectOptions, "mergeProps")
      options == GetProperty(h, connectOptions, "options")
      component == GetProperty(h, connectOptions, "component")
      as == <<mapStateToProps, mapDispatchToProps, mergeProps, options>>
      wrapper == Len(h) + 1
      h1 == Append(h, ConnectWrapper(as))
      h2 == Append(h1, ConnectedComponent(h1[wrapper], component))
  IN Return(h2, Ref(wrapper + 1),
            <<Call("connect", as), Call("connect()", <<component>>)>>)

(***************************************************************************)
(* The callers' inputs.                                                    *)
(***************************************************************************)
\* The properties a caller's bag may hold.  "1" and "0" are array-index
\* keys, "__proto__" is an ordinary own key of a bag made by JSON.parse, by
\* a computed key, or on a prototype-less object.
BagProps == [key : {"a", "1", "0", "__proto__"}, value : {Num(1), Num(2), Null}]

\* The properties of the arguments of immutableUpdate.
UpdateProps ==
  [key : {"a", "b"}, value : {Num(1), Num(2)}]
    \cup [key : {"__proto__"}, value : {Num(1), Null}]

\* The property lists of at most MaxKeys properties with distinct keys.
PropLists(props) ==
  UNION {{p \in [1..m -> props] : \A i, j \in 1..m : i # j => p[i].key # p[j].key} :
           m \in 0..MaxKeys}

\* Bags: plain objects ({...}) and prototype-less ones (ObjectMap<T>).
Bags ==
  {[class |-> "Object", props |-> p, proto |-> pr, items |-> <<>>] :
     p \in PropLists(BagProps), pr \in {ObjectPrototype, Null}}

\* The arguments of immutableUpdate are written as literals with their
\* keys in this order.
UpdateKeyOrder == <<"a", "b", "__proto__">>

KeyPosition(key) == CHOOSE i \in 1..Len(UpdateKeyOrder) : UpdateKeyOrder[i] = key

UpdateBags ==
  {[class |-> "Object", props |-> p, proto |-> ObjectPrototype, items |-> <<>>] :
     p \in {q \in PropLists(UpdateProps) :
              \A i, j \in 1..Len(q) : i < j => KeyPosition(q[i].key) < KeyPosition(q[j].key)}}

\* A rest argument of immutableUpdate: an object, or undefined.
RestChoices ==
  {[present |-> TRUE, obj |-> b] : b \in UpdateBags}
    \cup {[present |-> FALSE, obj |-> NewObject(ObjectPrototype)]}

RestLists == UNION {[1..m -> RestChoices] : m \in 0..MaxRest}

\* The caller's heap for immutableUpdate(object, ...rest) and the argument
\* values that refer into it.
RestObjects(rs) ==
  LET present == SelectSeq(rs, LAMBDA c : c.present)
  IN [i \in 1..Len(present) |-> present[i].obj]

RestArgs(rs) ==
  [i \in 1..Len(rs) |->
     IF rs[i].present
     THEN Ref(1 + Cardinality({j \in 1..i : rs[j].present}))
     ELSE Undefined]

Fns == {Fn("double"), Fn("key"), Fn("null"), Fn("identity")}

TypeInputs ==
  {TransformTypeCases[i] : i \in 1..Len(TransformTypeCases)}
    \cup {"", "Merge-Call-Node", "MERGE-FUNCTION", "Drop-function", "merge", "merge-call",
          "merge-call-nod", "erge-call-node", "function", "-function", "drop-", "focus",
          "collapse-recursion", " drop-function", "drop-function ", "drop_function",
          "merge-call-node,merge-function", "null", "undefined"}

Items ==
  {Null, Undefined, Num(0), Bool(FALSE), Str(""), Num(1), Bool(TRUE), Str("null"), Ref(1)}

Messages ==
  {Undefined, Null, Str(""), Str("custom message"), Str("it was undefined"), Str("0")}

AssertValues ==
  {Undefined, Null, Bool(TRUE), Bool(FALSE), Num(0), Num(42), Str(""), Str("zoom-in")}

AssertMessages == {Undefined, Str(""), Str("custom message")}

SetMembers == {Num(1), Num(2), Str("a"), Undefined}

\* The [[SetData]] of a Set: distinct members in insertion order.
SetItemLists ==
  UNION {{q \in [1..m -> SetMembers] : \A i, j \in 1..m : i # j => q[i] # q[j]} :
           m \in 0..MaxSetSize}

NewSet(items) == [class |-> "Set", props |-> <<>>, proto |-> ObjectPrototype, items |-> items]

Components == {Fn("CallTree"), Fn("FlameGraph")}

\* The caller's objects for explicitConnect: the configuration at heap[1],
\* a plain object of action creators at heap[2], an options object at
\* heap[3].
ActionCreators ==
  [class |-> "Object",
   props |-> <<[key |-> "changeSelectedCallNode", value |-> Fn("changeSelectedCallNode")]>>,
   proto |-> ObjectPrototype, items |-> <<>>]

OptionsObject ==
  [class |-> "Object", props |-> <<[key |-> "forwardRef", value |-> Bool(TRUE)]>>,
   proto |-> ObjectPrototype, items |-> <<>>]

\* For each optional field, the values a caller gives it; Absent leaves the
\* field out of the configuration.
Absent == [t |-> "absent", n |-> 0, s |-> ""]

FieldChoices ==
  [mapStateToProps : {Absent, Undefined, Fn("mapStateToProps")},
   mapDispatchToProps : {Absent, Fn("mapDispatchToProps"), Ref(2)},
   mergeProps : {Absent, Fn("mergeProps")},
   options : {Absent, Ref(3)},
   component : Components]

ConfigFields == <<"mapStateToProps", "mapDispatchToProps", "mergeProps", "options", "component">>

ConfigObject(c) ==
  LET all == [i \in 1..Len(ConfigFields) |-> [key |-> ConfigFields[i], value |-> c[ConfigFields[i]]]]
  IN [class |-> "Object", props |-> SelectSeq(all, LAMBDA p : p.value # Absent),
      proto |-> ObjectPrototype, items |-> <<>>]

(***************************************************************************)
(* The state machine: one action per exported function.                    *)
(***************************************************************************)
Init ==
  /\ op = "init"
  /\ args = <<>>
  /\ heap0 = <<>>
  /\ heap = <<>>
  /\ kind = "return"
  /\ value = Undefined
  /\ msg = ""
  /\ calls = <<>>

\* The caller is between calls: nothing is kept from one call to the next.
\* Each action below is one call: it records what was called, with what, on
\* which heap, and the outcome.
Idle == op = "init"

CallAssertExhaustiveCheck ==
  /\ Idle
  /\ \E v \in AssertValues, m \in AssertMessages :
       LET h0 == <<>>
           as == <<v, m>>
           r == assertExhaustiveCheck(h0, v, m)
       IN /\ op' = "assertExhaustiveCheck"
          /\ args' = as
          /\ heap0' = h0
          /\ heap' = r.heap
          /\ kind' = r.kind
          /\ value' = r.value
          /\ msg' = r.msg
          /\ calls' = r.calls

CallImmutableUpdate ==
  /\ Idle
  /\ \E o \in UpdateBags, rs \in RestLists :
       LET h0 == <<o>> \o RestObjects(rs)
           as == <<Ref(1)>> \o RestArgs(rs)
           r == immutableUpdate(h0, Ref(1), RestArgs(rs))
       IN /\ op' = "immutableUpdate"
          /\ args' = as
          /\ heap0' = h0
          /\ heap' = r.heap
          /\ kind' = r.kind
          /\ value' = r.value
          /\ msg' = r.msg
          /\ calls' = r.calls

CallConvertToTransformType ==
  /\ Idle
  /\ \E x \in TypeInputs :
       LET h0 == <<>>
           as == <<Str(x)>>
           r == convertToTransformType(h0, Str(x))
       IN /\ op' = "convertToTransformType"
          /\ args' = as
          /\ heap0' = h0
          /\ heap' = r.heap
          /\ kind' = r.kind
          /\ value' = r.value
          /\ msg' = r.msg
          /\ calls' = r.calls

CallObjectEntries ==
  /\ Idle
  /\ \E o \in Bags :
       LET h0 == <<o>>
           as == <<Ref(1)>>
           r == objectEntries(h0, Ref(1))
       IN /\ op' = "objectEntries"
          /\ args' = as
          /\ heap0' = h0
          /\ heap' = r.heap
          /\ kind' = r.kind
          /\ value' = r.value
          /\ msg' = r.msg
          /\ calls' = r.calls

CallObjectMap ==
  /\ Idle
  /\ \E o \in Bags, fn \in Fns :
       LET h0 == <<o>>
           as == <<Ref(1), fn>>
           r == objectMap(h0, Ref(1), fn)
       IN /\ op' = "objectMap"
          /\ args' = as
          /\ heap0' = h0
          /\ heap' = r.heap
          /\ kind' = r.kind
          /\ value' = r.value
          /\ msg' = r.msg
          /\ calls' = r.calls

CallEnsureExists ==
  /\ Idle
  /\ \E item \in Items, m \in Messages :
       LET h0 == IF IsRef(item) THEN <<NewObject(ObjectPrototype)>> ELSE <<>>
           as == <<item, m>>
           r == ensureExists(h0, item, m)
       IN /\ op' = "ensureExists"
          /\ args' = as
          /\ heap0' = h0
          /\ heap' = r.heap
          /\ kind' = r.kind
          /\ value' = r.value
          /\ msg' = r.msg
          /\ calls' = r.calls

CallGetFirstItemFromSet ==
  /\ Idle
  /\ \E items \in SetItemLists :
       LET h0 == <<NewSet(items)>>
           as == <<Ref(1)>>
           r == getFirstItemFromSet(h0, Ref(1))
       IN /\ op' = "getFirstItemFromSet"
          /\ args' = as
          /\ heap0' = h0
          /\ heap' = r.heap
          /\ kind' = r.kind
          /\ value' = r.value
          /\ msg' = r.msg
          /\ calls' = r.calls

CallExplicitConnect ==
  /\ Idle
  /\ \E c \in FieldChoices :
       LET h0 == <<ConfigObject(c), ActionCreators, OptionsObject>>
           as == <<Ref(1)>>
           r == explicitConnect(h0, Ref(1))
       IN /\ op' = "explicitConnect"
          /\ args' = as
          /\ heap0' = h0
          /\ heap' = r.heap
          /\ kind' = r.kind
          /\ value' = r.value
          /\ msg' = r.msg
          /\ calls' = r.calls

\* The caller drops the outcome and is ready for the next call.
Forget ==
  /\ ~Idle
  /\ op' = "init"
  /\ args' = <<>>
  /\ heap0' = <<>>
  /\ heap' = <<>>
  /\ kind' = "return"
  /\ value' = Undefined
  /\ msg' = ""
  /\ calls' = <<>>

Next ==
  \/ CallAssertExhaustiveCheck
  \/ CallImmutableUpdate
  \/ CallConvertToTransformType
  \/ CallObjectEntries
  \/ CallObjectMap
  \/ CallEnsureExists
  \/ CallGetFirstItemFromSet
  \/ CallExplicitConnect
  \/ Forget

Spec == Init /\ [][Next]_vars

(***************************************************************************)
(* Properties.                                                             *)
(***************************************************************************)
\* Whether the string sub occurs in the string x.
Contains(x, sub) ==
  \/ sub = ""
  \/ \E i \in 1..(Len(x) - Len(sub) + 1) : SubSeq(x, i, i + Len(sub) - 1) = sub

\* The ten recognized transform tags, as the specification lists them.
RecognizedTags ==
  {"merge-call-node", "merge-function", "focus-subtree", "focus-function", "focus-category",
   "collapse-resource", "collapse-direct-recursion", "collapse-indirect-recursion",
   "collapse-function-subtree", "drop-function"}

\* C1: convertToTransformType(s) returns s itself exactly when s is one of
\* the ten recognized tags, and null for every other string.
C1_ConvertExactMembership ==
  op = "convertToTransformType" =>
    /\ kind = "return"
    /\ (args[1].s \in RecognizedTags) <=> (value = args[1])
    /\ (args[1].s \notin RecognizedTags) => (value = Null)

\* C1 witness: the last recognized tag came back unchanged.
C1_Witness ==
  /\ op = "convertToTransformType"
  /\ args[1] = Str("drop-function")
  /\ value = Str("drop-function")

\* C2: ensureExists without a message throws an error that mentions null
\* for null and undefined for undefined, and returns every other item,
\* falsy ones included, unchanged.
C2_EnsureExistsNoMessage ==
  (op = "ensureExists" /\ args[2] = Undefined) =>
    /\ (args[1] = Null) =>
         (kind = "throw" /\ Contains(msg, "null") /\ ~Contains(msg, "undefined"))
    /\ (args[1] = Undefined) => (kind = "throw" /\ Contains(msg, "undefined"))
    /\ (args[1] \notin {Null, Undefined}) =>
         (kind = "return" /\ value = args[1] /\ heap = heap0)

\* C2 witness: the falsy item 0 was returned.
C2_Witness ==
  /\ op = "ensureExists"
  /\ args = <<Num(0), Undefined>>
  /\ kind = "return"
  /\ value = Num(0)

\* C3: assertExhaustiveCheck always throws; the error carries the supplied
\* message, or else a default that embeds the string form of the value.
C3_AssertAlwaysThrows ==
  op = "assertExhaustiveCheck" =>
    /\ kind = "throw"
    /\ (args[2] # Undefined) => (msg = args[2].s)
    /\ (args[2] = Undefined) =>
         (Contains(msg, "\"" \o ToString(args[1]) \o "\"") /\ Len(msg) > Len(ToString(args[1])) + Len("\"\""))

\* C3 witness: the value 42 was passed without a message and the error
\* text quotes it.
C3_Witness ==
  /\ op = "assertExhaustiveCheck"
  /\ args = <<Num(42), Undefined>>
  /\ kind = "throw"
  /\ Contains(msg, "\"42\"")

\* C7 as stated: for an unrecognized string the fallback branch calls
\* assertExhaustiveCheck and the call still returns null.
C7_FallbackCallsAssertion ==
  (op = "convertToTransformType" /\ args[1].s \notin RecognizedTags) =>
    /\ \E i \in 1..Len(calls) : calls[i].callee = "assertExhaustiveCheck"
    /\ kind = "return"
    /\ value = Null

\* C7 amended: for an unrecognized string the fallback branch makes no call
\* to assertExhaustiveCheck and returns null; no input string makes
\* convertToTransformType throw.
C7_FallbackReturnsNullWithoutAssertion ==
  op = "convertToTransformType" =>
    /\ kind = "return"
    /\ (args[1].s \notin RecognizedTags) =>
         /\ value = Null
         /\ \A i \in 1..Len(calls) : calls[i].callee # "assertExhaustiveCheck"

\* C7 witness: a case-mismatched tag took the fallback branch.
C7_Witness ==
  /\ op = "convertToTransformType"
  /\ args[1] = Str("Merge-Call-Node")
  /\ kind = "return"
  /\ value = Null
  /\ calls = <<>>

\* C8 as stated: with an absent item and any supplied message string, the
\* empty string included, the error message is the supplied message.
C8_SuppliedMessageAlwaysUsed ==
  (op = "ensureExists" /\ args[1] \in {Null, Undefined} /\ args[2].t = "string") =>
    (kind = "throw" /\ msg = args[2].s)

\* C8 amended: with an absent item and a non-empty supplied message, the
\* error message is exactly the supplied message; with no message, a null
\* message or the empty string, it is the default text for null or for
\* undefined.
C8_NonEmptyMessageUsed ==
  (op = "ensureExists" /\ args[1] \in {Null, Undefined}) =>
    /\ kind = "throw"
    /\ (args[2].t = "string" /\ args[2].s # "") => (msg = args[2].s)
    /\ (args[2] \in {Undefined, Null, Str("")}) =>
         (msg = "Expected an item to exist, and it was " \o ToString(args[1]) \o ".")

\* C8 witness: a custom message was thrown for a null item.
C8_Witness ==
  /\ op = "ensureExists"
  /\ args = <<Null, Str("custom message")>>
  /\ kind = "throw"
  /\ msg = "custom message"

\* C9: getFirstItemFromSet returns a member of a non-empty set, undefined
\* for an empty one, and leaves the set as it was.
C9_FirstItemIsMember ==
  op = "getFirstItemFromSet" =>
    LET before == heap0[1].items
    IN /\ kind = "return"
       /\ (Len(before) > 0) => (\E i \in 1..Len(before) : value = before[i])
       /\ (Len(before) = 0) => (value = Undefined)
       /\ heap = heap0

\* C9 witness: a two-member set gave one of its members.
C9_Witness ==
  /\ op = "getFirstItemFromSet"
  /\ heap0[1].items = <<Num(2), Str("a")>>
  /\ value = Num(2)

\* Whether two objects have the same own keys with the same values.
SameProperties(x, y) ==
  /\ OwnKeySet(x) = OwnKeySet(y)
  /\ \A k \in OwnKeySet(x) : OwnValue(x, k) = OwnValue(y, k)

\* C4: objectMap(o, fn) returns a new bag with exactly the own keys of o,
\* "__proto__" included, each holding fn(o[k], k), and leaves o as it was.
C4_ObjectMapSameKeys ==
  op = "objectMap" =>
    /\ kind = "return"
    /\ IsRef(value)
    /\ value.n > Len(heap0)
    /\ SubSeq(heap, 1, Len(heap0)) = heap0
    /\ OwnKeySet(heap[value.n]) = OwnKeySet(heap0[1])
    /\ \A k \in OwnKeySet(heap0[1]) :
         OwnValue(heap[value.n], k) = ApplyFn(args[2], OwnValue(heap0[1], k), Str(k))

\* Beside C4: the statement of C4 for every own key other than "__proto__".
ObjectMapOrdinaryKeys ==
  op = "objectMap" =>
    /\ kind = "return"
    /\ IsRef(value)
    /\ value.n > Len(heap0)
    /\ SubSeq(heap, 1, Len(heap0)) = heap0
    /\ OwnKeySet(heap[value.n]) \ {"__proto__"} = OwnKeySet(heap0[1]) \ {"__proto__"}
    /\ \A k \in OwnKeySet(heap0[1]) \ {"__proto__"} :
         OwnValue(heap[value.n], k) = ApplyFn(args[2], OwnValue(heap0[1], k), Str(k))

\* Object.fromEntries over the array of pairs at h[entries]: each pair is
\* defined as an own property of obj.
RECURSIVE FromEntries(_, _, _, _)
FromEntries(h, entries, i, obj) ==
  IF i > Len(h[entries].items) THEN obj
  ELSE LET pair == h[h[entries].items[i].n].items
       IN FromEntries(h, entries, i + 1, CreateDataProperty(obj, pair[1].s, pair[2]))

\* C5: the object built from objectEntries(o) has the keys and values of o,
\* and objectEntries(o) holds one pair per own key of o, none twice, none
\* left out.
C5_EntriesRoundTrip ==
  op = "objectEntries" =>
    LET pairs == heap[value.n].items
        keyOf(i) == heap[pairs[i].n].items[1].s
    IN /\ kind = "return"
       /\ SubSeq(heap, 1, Len(heap0)) = heap0
       /\ SameProperties(FromEntries(heap, value.n, 1, NewObject(ObjectPrototype)), heap0[1])
       /\ Len(pairs) = Cardinality(OwnKeySet(heap0[1]))
       /\ {keyOf(i) : i \in 1..Len(pairs)} = OwnKeySet(heap0[1])
       /\ \A i, j \in 1..Len(pairs) : i # j => keyOf(i) # keyOf(j)

\* C5 witness: a prototype-less bag created with "__proto__" and then "0"
\* gave two pairs, the index key first.
C5_Witness ==
  /\ op = "objectEntries"
  /\ heap0[1].proto = Null
  /\ heap0[1].props = <<[key |-> "__proto__", value |-> Num(1)], [key |-> "0", value |-> Null]>>
  /\ Len(heap[value.n].items) = Len(heap0[1].props)
  /\ heap[heap[value.n].items[1].n].items = <<Str("0"), Null>>

\* The value of a field of the configuration, undefined when it is absent.
ConfigField(name) == IF HasOwn(heap0[1], name) THEN OwnValue(heap0[1], name) ELSE Undefined

\* C6: explicitConnect(config) calls connect once with mapStateToProps,
\* mapDispatchToProps, mergeProps and options in that order, undefined for
\* an absent field and an object of action creators passed as it is, then
\* calls the result once with config.component and returns what that gives.
C6_ExplicitConnectForwards ==
  op = "explicitConnect" =>
    LET as == <<ConfigField("mapStateToProps"), ConfigField("mapDispatchToProps"),
                ConfigField("mergeProps"), ConfigField("options")>>
    IN /\ kind = "return"
       /\ calls = <<Call("connect", as), Call("connect()", <<ConfigField("component")>>)>>
       /\ SubSeq(heap, 1, Len(heap0)) = heap0
       /\ IsRef(value)
       /\ heap[value.n] = ConnectedComponent(ConnectWrapper(as), ConfigField("component"))

\* C6 witness: a configuration with only component set gave a component
\* that wraps it, connect having been called with four undefined arguments.
C6_Witness ==
  /\ op = "explicitConnect"
  /\ OwnKeySet(heap0[1]) = {"component"}
  /\ calls[1] = Call("connect", <<Undefined, Undefined, Undefined, Undefined>>)
  /\ heap[value.n].class = "Function"
  /\ GetProperty(heap, value, "WrappedComponent") = Fn("CallTree")

\* The positions in args of the arguments of immutableUpdate that are
\* objects, and among them the last that has the key.
SourcePositions == {i \in 1..Len(args) : IsRef(args[i])}

LastWith(key) ==
  CHOOSE i \in SourcePositions :
    /\ HasOwn(heap0[args[i].n], key)
    /\ \A j \in SourcePositions : HasOwn(heap0[args[j].n], key) => j <= i

\* C10 as stated: immutableUpdate mutates no argument and returns a fresh
\* object whose keys are the union of the arguments' own keys, each with
\* the value of the last argument that has it; with no rest arguments the
\* result equals object.
C10_UpdateUnionOfKeys ==
  op = "immutableUpdate" =>
    /\ kind = "return"
    /\ IsRef(value)
    /\ value.n > Len(heap0)
    /\ SubSeq(heap, 1, Len(heap0)) = heap0
    /\ OwnKeySet(heap[value.n]) = UNION {OwnKeySet(heap0[args[i].n]) : i \in SourcePositions}
    /\ \A k \in OwnKeySet(heap[value.n]) :
         OwnValue(heap[value.n], k) = OwnValue(heap0[args[LastWith(k)].n], k)
    /\ (Len(args) = 1) => SameProperties(heap[value.n], heap0[1])

\* The values the arguments give for their own "__proto__" keys.
ProtoValues ==
  {OwnValue(heap0[args[i].n], "__proto__") :
     i \in {j \in SourcePositions : HasOwn(heap0[args[j].n], "__proto__")}}

\* C10 amended: immutableUpdate mutates no argument and returns a fresh
\* object whose keys other than "__proto__" are the union of the arguments'
\* own keys other than "__proto__", each with the value of the last argument
\* that has it.  An argument's own "__proto__" key is not copied while the
\* result inherits from Object.prototype: it is assigned through the
\* inherited setter, which ignores a primitive value and makes an object or
\* null the result's prototype.  With no rest arguments and no own
\* "__proto__" key the result equals object.
C10_UpdateUnionOfOrdinaryKeys ==
  op = "immutableUpdate" =>
    /\ kind = "return"
    /\ IsRef(value)
    /\ value.n > Len(heap0)
    /\ SubSeq(heap, 1, Len(heap0)) = heap0
    /\ OwnKeySet(heap[value.n]) \ {"__proto__"}
         = UNION {OwnKeySet(heap0[args[i].n]) : i \in SourcePositions} \ {"__proto__"}
    /\ \A k \in OwnKeySet(heap[value.n]) \ {"__proto__"} :
         OwnValue(heap[value.n], k) = OwnValue(heap0[args[LastWith(k)].n], k)
    /\ (\A v \in ProtoValues : v.t # "object" /\ v.t # "null") =>
         (~HasOwn(heap[value.n], "__proto__") /\ heap[value.n].proto = ObjectPrototype)
    /\ (Null \in ProtoValues) => (heap[value.n].proto = Null)
    /\ (Len(args) = 1 /\ ProtoValues = {}) => SameProperties(heap[value.n], heap0[1])

\* C10 witness: a rest argument replaced the value of "a" and added "b".
C10_Witness ==
  /\ op = "immutableUpdate"
  /\ Len(args) > 1
  /\ IsRef(args[Len(args)])
  /\ heap0[1].props = <<[key |-> "a", value |-> Num(1)]>>
  /\ heap0[args[Len(args)].n].props = <<[key |-> "a", value |-> Num(2)], [key |-> "b", value |-> Num(1)]>>
  /\ GetProperty(heap, value, "a") = Num(2)
  /\ GetProperty(heap, value, "b") = Num(1)

====
